---- MODULE Spec2Model ----
(***************************************************************************)
(* Model of the libvirt infra provider core:                               *)
(*   - ImageCache (images.go): Acquire / Release / cleanup / download      *)
(*   - the provisioning steps (provision.go, ProvisionSteps)               *)
(*   - Deprovision and its helpers removeDomain, removeVolMain, ...        *)
(***************************************************************************)
EXTENDS Integers, Sequences, FiniteSets, TLC

(***************************************************************************)
(* Bounds of the model.                                                    *)
(***************************************************************************)
\* number of goroutines calling Acquire/Release concurrently
NumCallers == 2
\* the clock runs from 0 to MaxTime
MaxTime == 3
\* number of Acquire calls issued in one behaviour
MaxCalls == 2
\* number of additional disks in a machine request
MaxDisks == 2
\* number of collaborator calls that fail, or disturbances of the guest, in one behaviour
MaxFaults == 1

\* number of additional disks of one type in a domain descriptor
MaxSata == 27
\* number of additional disks of mixed types in a domain descriptor
MaxMixed == 3

\* ImageCache.MaxAge, in clock ticks
MaxAge == 2

Callers == 1..NumCallers
Schematics == {"s1", "s2"}
Versions == {"v1"}
NoTime == -1

(***************************************************************************)
(* ImageCache: pure helpers.                                               *)
(***************************************************************************)
cacheKey(schematicID, talosVersion) == schematicID \o "-" \o talosVersion \o ".qcow2.gz"

Keys == {cacheKey(s, v) : s \in Schematics, v \in Versions}

\* filepath.Join(c.CachePath, key)
filePath(key) == "/cache/" \o key

\* os.CreateTemp(c.CachePath, "download-*.tmp"): one name per download in flight
tempName(key) == "download-" \o key \o ".tmp"

TempNames == {tempName(k) : k \in Keys}
Names == Keys \cup TempNames

VARIABLES
    refs,        \* ImageCache.refs: name -> count (0 = no entry)
    lastUsed,    \* ImageCache.lastUsed: name -> time, NoTime = no entry
    files,       \* names of the files in the cache directory
    whole,       \* history: the files whose content is a completely copied image
    now,         \* time.Now()
    flight,      \* downloadGroup: key -> TRUE while a call for key is in flight
    pc,          \* caller -> position in Acquire/Release
    ckey,        \* caller -> key of its current call
    got,         \* caller -> path returned by its Acquire ("" before it returns)
    cancelledAt, \* caller -> where its call was when its context was cancelled, or "none"
    calls,       \* history: key -> Acquire calls issued
    acquired,    \* history: key -> Acquire calls that returned a path
    released,    \* history: key -> Release calls
    fetches,     \* history: key -> network fetches started
    coldStart,   \* history: key -> the file was absent when the first Acquire was issued
    lastRel,     \* history: key -> time of the latest Release call, NoTime = none
    op,          \* history: the last operation, <<name, ...>>
    \* ---- one machine: request, MachineState, hypervisor, driver ----
    reqDisks,        \* Data.AdditionalDisks of the request: sequence of disk types
    Uuid,            \* MachineSpec.Uuid ("" = unset)
    SchematicId,     \* MachineSpec.SchematicId
    PoolName,        \* MachineSpec.PoolName
    VmVolName,       \* MachineSpec.VmVolName
    AdditionalDisks, \* MachineSpec.AdditionalDisks: sequence of <<Type, VolName>>
    CidataVolName,   \* MachineSpec.CidataVolName
    VmName,          \* MachineSpec.VmName
    dom,             \* hypervisor: state of the domain named after the machine
    domUuid,         \* hypervisor: UUID of that domain
    vols,            \* hypervisor: names of the volumes in the storage pool
    volImage,        \* hypervisor: volumes that hold an uploaded image
    phase,           \* driver: "provision", "failed", "ready", "deprovision", "removed"
    step,            \* driver: index of the next step of the running pass
    faults,          \* failed collaborator calls and guest disturbances so far
    dels,            \* history: volume -> successful StorageVolDelete calls
    mop,             \* history: the last step or pass, [step, done, out, muts, clean]
    \* ---- one call of a helper function ----
    fn,              \* the function called ("none" before the first call)
    args,            \* its arguments
    result           \* what it returned

cvars == <<refs, lastUsed, files, whole, now, flight, pc, ckey, got, cancelledAt,
           calls, acquired, released, fetches, coldStart, lastRel, op>>

mvars == <<reqDisks, Uuid, SchematicId, PoolName, VmVolName, AdditionalDisks,
           CidataVolName, VmName, dom, domUuid, vols, volImage, phase, step, faults,
           dels, mop>>

fvars == <<fn, args, result>>

vars == <<cvars, mvars, fvars>>

NoKey == CHOOSE k \in Keys : TRUE

RECURSIVE SumOver(_, _)
SumOver(f, S) == IF S = {} THEN 0
                 ELSE LET x == CHOOSE y \in S : TRUE IN f[x] + SumOver(f, S \ {x})

\* variant: the callers that joined a call in flight are never handed its result
CoalescedLeaderOnly(k) == {c \in Callers : ckey[c] = k /\ pc[c] \in {"fetch", "copy"}}

\* the callers a finished singleflight call hands its result to
Coalesced(k) == {c \in Callers : ckey[c] = k /\ pc[c] \in {"wait", "fetch", "copy"}}

\* variant: the decremented count is stored as it is
DecRefStores(n) == n - 1

\* variant: the reference is not given back
DecRefKeeps(n) == n

\* c.refs[key]--; if c.refs[key] <= 0 { delete(c.refs, key) }
DecRef(n) == IF n - 1 <= 0 THEN 0 ELSE n - 1

\* Acquire, images.go:81-84: the reference is taken under the mutex before any I/O
AcquireInc(c) ==
    /\ pc[c] = "idle"
    /\ SumOver(calls, Keys) < MaxCalls
    /\ \E s \in Schematics, v \in Versions :
        LET key == cacheKey(s, v) IN
        /\ refs' = [refs EXCEPT ![key] = @ + 1]
        /\ ckey' = [ckey EXCEPT ![c] = key]
        /\ calls' = [calls EXCEPT ![key] = @ + 1]
        /\ coldStart' = IF calls[key] = 0
                        THEN [coldStart EXCEPT ![key] = key \notin files]
                        ELSE coldStart
    /\ pc' = [pc EXCEPT ![c] = "do"]
    /\ cancelledAt' = [cancelledAt EXCEPT ![c] = "none"]
    /\ op' = <<"acquire">>
    /\ UNCHANGED <<lastUsed, files, whole, now, flight, got, acquired, released, fetches,
                   lastRel>>

\* variant: calls for one key are not coalesced
DoJoinsNever(k) == FALSE

\* singleflight: a call for the key is in flight, so this one waits for its result
DoJoins(k) == flight[k]

\* os.Stat(filePath) succeeded: the image is already cached
Cached(k) == k \in files

\* the singleflight call for k ends with no error: every caller in S returns filePath
CompleteOk(k, S) ==
    /\ flight' = [flight EXCEPT ![k] = FALSE]
    /\ pc' = [c \in Callers |-> IF c \in S THEN "hold" ELSE pc[c]]
    /\ got' = [c \in Callers |-> IF c \in S THEN filePath(k) ELSE got[c]]
    /\ acquired' = [acquired EXCEPT ![k] = @ + Cardinality(S)]
    /\ op' = <<"ok", k, S>>

\* variant: only the caller that ran the download sees its error
ErrReceiversLeaderOnly(S) == {c \in S : pc[c] /= "wait"}

\* the callers that receive the error of a failed singleflight call
ErrReceivers(S) == S

\* the singleflight call for k ends with an error: every caller in S gets it
CompleteErr(k, S) ==
    /\ flight' = [flight EXCEPT ![k] = FALSE]
    /\ pc' = [c \in Callers |->
                IF c \in ErrReceivers(S) THEN "rollback"
                ELSE IF c \in S THEN "hold" ELSE pc[c]]
    /\ got' = [c \in Callers |-> IF c \in S \ ErrReceivers(S) THEN filePath(k) ELSE got[c]]
    /\ acquired' = [acquired EXCEPT ![k] = @ + Cardinality(S \ ErrReceivers(S))]
    /\ op' = <<"fail", k, S>>

\* downloadGroup.Do(key, fn), images.go:87-103: a caller that finds a call in flight
\* waits for it; otherwise it runs fn, which checks the final path and starts the fetch
DoEnter(c) ==
    /\ UNCHANGED cancelledAt
    /\ pc[c] = "do"
    /\ IF DoJoins(ckey[c])
       THEN /\ pc' = [pc EXCEPT ![c] = "wait"]
            /\ op' = <<"join">>
            /\ UNCHANGED <<flight, got, acquired, fetches>>
       ELSE IF Cached(ckey[c])
       THEN /\ CompleteOk(ckey[c], {c})
            /\ UNCHANGED fetches
       ELSE /\ pc' = [pc EXCEPT ![c] = "fetch"]
            /\ flight' = [flight EXCEPT ![ckey[c]] = TRUE]
            /\ fetches' = [fetches EXCEPT ![ckey[c]] = @ + 1]
            /\ op' = <<"fetch">>
            /\ UNCHANGED <<got, acquired>>
    /\ UNCHANGED <<refs, lastUsed, files, whole, now, ckey, calls, released, coldStart,
                   lastRel>>

\* download, images.go:244-261: request creation, client.Do or the status check fails
DownloadFetchFail(c) ==
    /\ UNCHANGED cancelledAt
    /\ pc[c] = "fetch"
    /\ CompleteErr(ckey[c], Coalesced(ckey[c]))
    /\ UNCHANGED <<refs, lastUsed, files, whole, now, ckey, calls, released, fetches,
                   coldStart, lastRel>>

\* variant: the download runs under the context of the caller that started it
AbortedWithCaller(c) == cancelledAt[c] /= "none"

\* download, images.go:240-246: the request runs under context.WithoutCancel(ctx), so
\* the cancellation of the caller's context never ends it
Aborted(c) == FALSE

\* variant: the body is written straight to the final path
DownloadCreateInPlace(c) ==
    /\ UNCHANGED cancelledAt
    /\ pc[c] = "fetch"
    /\ files' = files \cup {ckey[c]}
    /\ whole' = whole \ {ckey[c]}
    /\ pc' = [pc EXCEPT ![c] = "copy"]
    /\ op' = <<"temp">>
    /\ UNCHANGED <<refs, lastUsed, now, flight, ckey, got, calls, acquired, released,
                   fetches, coldStart, lastRel>>

\* download, images.go:263-269: the response is good and the temp file is created
DownloadCreateTemp(c) ==
    /\ UNCHANGED cancelledAt
    /\ pc[c] = "fetch"
    /\ ~Aborted(c)
    /\ files' = files \cup {tempName(ckey[c])}
    /\ whole' = whole \ {tempName(ckey[c])}
    /\ pc' = [pc EXCEPT ![c] = "copy"]
    /\ op' = <<"temp">>
    /\ UNCHANGED <<refs, lastUsed, now, flight, ckey, got, calls, acquired, released,
                   fetches, coldStart, lastRel>>

\* a temp name is random and never used again: what lastUsed holds for it is dropped
\* with the file
ForgetTemp(k) == [lastUsed EXCEPT ![tempName(k)] = NoTime]

\* download, images.go:286-295 with the deferred os.Remove(tempPath) of 272-283
DownloadCopyFail(c) ==
    /\ UNCHANGED cancelledAt
    /\ pc[c] = "copy"
    /\ files' = files \ {tempName(ckey[c])}
    /\ whole' = whole \ {tempName(ckey[c])}
    /\ lastUsed' = ForgetTemp(ckey[c])
    /\ CompleteErr(ckey[c], Coalesced(ckey[c]))
    /\ UNCHANGED <<refs, now, ckey, calls, released, fetches, coldStart, lastRel>>

\* download, images.go:297-313: os.Rename(tempPath, finalPath); it fails when the
\* temp file is gone
DownloadRename(c) ==
    /\ UNCHANGED cancelledAt
    /\ pc[c] = "copy"
    /\ IF tempName(ckey[c]) \in files /\ ~Aborted(c)
       THEN /\ files' = (files \ {tempName(ckey[c])}) \cup {ckey[c]}
            /\ whole' = (whole \ {tempName(ckey[c])}) \cup {ckey[c]}
            /\ CompleteOk(ckey[c], Coalesced(ckey[c]))
       ELSE /\ UNCHANGED <<files, whole>>
            /\ CompleteErr(ckey[c], Coalesced(ckey[c]))
    /\ lastUsed' = ForgetTemp(ckey[c])
    /\ UNCHANGED <<refs, now, ckey, calls, released, fetches, coldStart, lastRel>>

\* the context a caller passed to Acquire is cancelled while the call is under way:
\* Acquire never reads ctx (images.go:77-119) and download detaches from it
Cancel(c) ==
    /\ pc[c] \in {"do", "wait", "fetch", "copy"}
    /\ cancelledAt[c] = "none"
    /\ cancelledAt' = [cancelledAt EXCEPT ![c] = pc[c]]
    /\ op' = <<"cancel">>
    /\ UNCHANGED <<refs, lastUsed, files, whole, now, flight, pc, ckey, got, calls,
                   acquired, released, fetches, coldStart, lastRel>>

\* Acquire, images.go:104-116: the error path gives the reference back
AcquireRollback(c) ==
    /\ UNCHANGED cancelledAt
    /\ pc[c] = "rollback"
    /\ refs' = [refs EXCEPT ![ckey[c]] = DecRef(@)]
    /\ pc' = [pc EXCEPT ![c] = "idle"]
    /\ ckey' = [ckey EXCEPT ![c] = NoKey]
    /\ op' = <<"rollback", ckey[c]>>
    /\ UNCHANGED <<lastUsed, files, whole, now, flight, got, calls, acquired, released,
                   fetches, coldStart, lastRel>>

\* variant: the comparison of the count with zero is strict
ReleaseStampsBelowZero(n) == n - 1 < 0

\* Release stamps the idle time when the count is gone, images.go:129-132
ReleaseStamps(n) == n - 1 <= 0

\* Release, images.go:122-133 (called by the holder of a path)
Release(c) ==
    /\ UNCHANGED cancelledAt
    /\ pc[c] = "hold"
    /\ refs' = [refs EXCEPT ![ckey[c]] = DecRef(@)]
    /\ lastUsed' = IF ReleaseStamps(refs[ckey[c]])
                   THEN [lastUsed EXCEPT ![ckey[c]] = now]
                   ELSE lastUsed
    /\ pc' = [pc EXCEPT ![c] = "idle"]
    /\ ckey' = [ckey EXCEPT ![c] = NoKey]
    /\ got' = [got EXCEPT ![c] = ""]
    /\ released' = [released EXCEPT ![ckey[c]] = @ + 1]
    /\ lastRel' = [lastRel EXCEPT ![ckey[c]] = now]
    /\ op' = <<"release", ckey[c]>>
    /\ UNCHANGED <<files, whole, now, flight, calls, acquired, fetches, coldStart>>

\* Release, images.go:122-133, called for a key by code that holds no reference to it
StrayRelease(k) ==
    /\ SumOver(released, Keys) < MaxCalls
    /\ refs' = [refs EXCEPT ![k] = DecRef(@)]
    /\ lastUsed' = IF ReleaseStamps(refs[k]) THEN [lastUsed EXCEPT ![k] = now] ELSE lastUsed
    /\ released' = [released EXCEPT ![k] = @ + 1]
    /\ lastRel' = [lastRel EXCEPT ![k] = now]
    /\ op' = <<"release", k>>
    /\ UNCHANGED <<files, whole, now, flight, pc, ckey, got, cancelledAt, calls, acquired,
                   fetches, coldStart>>

\* variant: one reference does not protect the entry
InUseAboveOne(key) == refs[key] > 1

\* cleanup, images.go:174: the entry is still in use
InUse(key) == refs[key] > 0

\* variant: the age test is off by one tick
TooYoungOffByOne(t, last) == t - last < MaxAge - 1

\* cleanup, images.go:195: the entry is not old enough to remove
TooYoung(t, last) == t - last < MaxAge

\* variant: an entry without a recorded idle time is treated like any other
NoMetadataIgnored(key) == FALSE

\* cleanup, images.go:184-193: no idle time is recorded for the entry
NoMetadata(key) == lastUsed[key] = NoTime

\* variant: an entry is removed only once it is older than MaxAge
RemovedOnlyOlder ==
    {key \in files : ~InUse(key) /\ ~NoMetadata(key) /\ now - lastUsed[key] > MaxAge}

\* cleanup, images.go:199-210: the entries this sweep removes
Removed == {key \in files : ~InUse(key) /\ ~NoMetadata(key) /\ ~TooYoung(now, lastUsed[key])}

\* cleanup, images.go:152-217: the whole sweep runs under c.mu
cleanup ==
    /\ UNCHANGED cancelledAt
    /\ files' = files \ Removed
    /\ whole' = whole \ Removed
    /\ lastUsed' = [key \in Names |->
                      IF key \in Removed THEN NoTime
                      ELSE IF key \in files /\ ~InUse(key) /\ NoMetadata(key) THEN now
                      ELSE lastUsed[key]]
    /\ op' = <<"cleanup", {<<key, now - lastUsed[key]>> : key \in Removed}>>
    /\ UNCHANGED <<refs, now, flight, pc, ckey, got, calls, acquired, released,
                   fetches, coldStart, lastRel>>

\* the wall clock advances
Tick ==
    /\ UNCHANGED cancelledAt
    /\ now < MaxTime
    /\ now' = now + 1
    /\ op' = <<"tick">>
    /\ UNCHANGED <<refs, lastUsed, files, whole, flight, pc, ckey, got, calls, acquired,
                   released, fetches, coldStart, lastRel>>

(***************************************************************************)
(* One machine: the provisioning steps, Deprovision, the hypervisor and    *)
(* the reconciliation driver.                                              *)
(***************************************************************************)
DiskTypes == {"sata", "nvme"}
UUIDs == {"u1", "u2", "u3"}
\* UUIDs of domains that other machines own on the hypervisor
ForeignUUIDs == {"u2"}
\* pctx.GetRequestID()
vmName == "vm"
\* Data.StoragePool
StoragePool == "default"
\* the (schematic, version) pair of the machine's image
imageKey == cacheKey("s1", "v1")

\* provisionPrimaryDisk, provision.go:181
primaryVolName == vmName \o ".qcow2"
\* provisionAdditionalDisks, provision.go:236
additionalVolName(idx, type) == vmName \o "-" \o ToString(idx) \o "-" \o type \o ".qcow2"
cidataVolName == vmName \o "-cidata.iso"

VolNames == {primaryVolName, cidataVolName}
            \cup {additionalVolName(i, t) : i \in 0..(MaxDisks - 1), t \in DiskTypes}

RECURSIVE SeqsUpTo(_, _)
SeqsUpTo(S, n) == IF n = 0 THEN {<<>>}
                  ELSE LET shorter == SeqsUpTo(S, n - 1)
                       IN shorter \cup {Append(q, x) : q \in {r \in shorter : Len(r) = n - 1}, x \in S}

NoOp == [step |-> "none", done |-> FALSE, out |-> "none", muts |-> <<>>, clean |-> TRUE]

InitMachineState ==
    /\ Uuid = ""
    /\ SchematicId = ""
    /\ PoolName = ""
    /\ VmVolName = ""
    /\ AdditionalDisks = <<>>
    /\ CidataVolName = ""
    /\ VmName = ""
    /\ dom = "absent"
    /\ domUuid = ""
    /\ vols = {}
    /\ volImage = {}
    /\ phase = "provision"
    /\ step = 1
    /\ faults = 0
    /\ dels = [v \in VolNames |-> 0]
    /\ mop = NoOp

\* the state of the cache, apart from the directory content
InitCacheState ==
    /\ refs = [n \in Names |-> 0]
    /\ lastUsed = [n \in Names |-> NoTime]
    /\ now = 0
    /\ flight = [k \in Keys |-> FALSE]
    /\ pc = [c \in Callers |-> "idle"]
    /\ ckey = [c \in Callers |-> NoKey]
    /\ got = [c \in Callers |-> ""]
    /\ cancelledAt = [c \in Callers |-> "none"]
    /\ calls = [k \in Keys |-> 0]
    /\ acquired = [k \in Keys |-> 0]
    /\ released = [k \in Keys |-> 0]
    /\ fetches = [k \in Keys |-> 0]
    /\ coldStart = [k \in Keys |-> FALSE]
    /\ lastRel = [k \in Keys |-> NoTime]
    /\ op = <<"init">>

\* variant: every failed lookup is reported as a volume that does not exist
getVolSwallows(vs, volName, lookupFails) ==
    IF volName \in vs /\ ~lookupFails THEN "ok" ELSE "noexist"

\* getVol, volumes.go:21-40: "ok", "noexist" (errVolNoExist) or "err" (any other error)
getVol(vs, volName, lookupFails) ==
    IF lookupFails THEN "err"
    ELSE IF volName \in vs THEN "ok" ELSE "noexist"

\* createVolume, volumes.go:43-45: the volume is there, no create call is issued
VolFound(vs, volName, lookupFails) == getVol(vs, volName, lookupFails) = "ok"

\* createVolume, volumes.go:42-84: [ok, vols, muts]; StorageVolCreateXML fails for a
\* name that exists
createVolume(vs, volName, lookupFails, createFails) ==
    IF VolFound(vs, volName, lookupFails)
    THEN [ok |-> TRUE, vols |-> vs, muts |-> <<>>]
    ELSE IF createFails \/ volName \in vs
    THEN [ok |-> FALSE, vols |-> vs, muts |-> <<"create">>]
    ELSE [ok |-> TRUE, vols |-> vs \cup {volName}, muts |-> <<"create">>]

\* ProvisionSteps, provision.go:121-530, with the bootstrap payload step in its place
StepNames == <<"generateUUID", "createSchematic", "provisionPrimaryDisk",
               "provisionAdditionalDisks", "configureHostname", "createCidata",
               "createVM", "startVM">>

LastStep == Len(StepNames)

\* the driver: success advances, retry starts the next pass from the top, fatal halts
Finish(name, done, out, muts, clean) ==
    /\ mop' = [step |-> name, done |-> done, out |-> out, muts |-> muts, clean |-> clean]
    /\ step' = IF out = "ok" /\ step < LastStep THEN step + 1 ELSE 1
    /\ phase' = IF out = "fatal" THEN "failed"
                ELSE IF out = "ok" /\ step = LastStep THEN "ready"
                ELSE "provision"

\* a collaborator call may fail while the budget lasts
MayFail(f) == f => faults < MaxFaults
Spend(f) == faults' = faults + (IF f THEN 1 ELSE 0)

\* generateUUID, provision.go:123-143
generateUUID ==
    /\ phase = "provision" /\ StepNames[step] = "generateUUID"
    /\ \E newUUID \in UUIDs, lookupFails \in BOOLEAN :
        LET inUse == newUUID \in ForeignUUIDs \/ (dom /= "absent" /\ domUuid = newUUID)
            found == inUse /\ ~lookupFails
        \* a collision is as rare as a failing call: both draw on the same budget
        IN /\ MayFail(lookupFails \/ inUse) /\ Spend(lookupFails \/ inUse)
           /\ Uuid' = IF found THEN Uuid ELSE newUUID
           /\ Finish("generateUUID", Uuid /= "", IF found THEN "retry" ELSE "ok", <<>>,
                     ~lookupFails /\ ~inUse)
    /\ UNCHANGED <<cvars, fvars, reqDisks, SchematicId, PoolName, VmVolName, AdditionalDisks,
                   CidataVolName, VmName, dom, domUuid, vols, volImage, dels>>

\* createSchematic, provision.go:145-158
createSchematic ==
    /\ phase = "provision" /\ StepNames[step] = "createSchematic"
    /\ \E fails \in BOOLEAN :
        /\ MayFail(fails) /\ Spend(fails)
        /\ SchematicId' = IF fails THEN SchematicId ELSE "s1"
        /\ Finish("createSchematic", SchematicId /= "", IF fails THEN "retry" ELSE "ok",
                  <<>>, ~fails)
    /\ UNCHANGED <<cvars, fvars, reqDisks, Uuid, PoolName, VmVolName, AdditionalDisks,
                   CidataVolName, VmName, dom, domUuid, vols, volImage, dels>>

\* variant: the error of the upload is dropped and the step goes on
PrimaryDiskIgnoresUpload(fail) ==
    LET cv == createVolume(vols, primaryVolName, fail = "getvol", fail = "create")
        uploaded == cv.ok /\ fail \notin {"open", "upload"}
        allOk == cv.ok /\ fail \notin {"open", "resize"}
    IN [out |-> IF fail = "acquire" THEN "retry" ELSE IF allOk THEN "ok" ELSE "fatal",
        pool |-> IF fail = "acquire" THEN PoolName ELSE StoragePool,
        vols |-> IF fail = "acquire" THEN vols ELSE cv.vols,
        image |-> IF fail /= "acquire" /\ uploaded THEN volImage \cup {primaryVolName}
                  ELSE IF cv.ok /\ fail = "upload" THEN volImage \ {primaryVolName}
                  ELSE volImage,
        volName |-> IF fail /= "acquire" /\ allOk THEN primaryVolName ELSE VmVolName,
        muts |-> IF fail = "acquire" THEN <<>>
                 ELSE cv.muts \o (IF cv.ok /\ fail /= "open" THEN <<"upload">> ELSE <<>>)
                              \o (IF cv.ok /\ fail /= "open" THEN <<"resize">> ELSE <<>>)]

\* provisionPrimaryDisk, provision.go:160-217: the outcome for each place that can fail
\* ("none", "acquire", "getvol", "create", "open", "upload", "resize")
PrimaryDisk(fail) ==
    LET cv == createVolume(vols, primaryVolName, fail = "getvol", fail = "create")
        uploaded == cv.ok /\ fail \notin {"open", "upload"}
        muts == IF fail = "acquire" THEN <<>>
                ELSE cv.muts
                     \o (IF cv.ok /\ fail /= "open" THEN <<"upload">> ELSE <<>>)
                     \o (IF uploaded THEN <<"resize">> ELSE <<>>)
        allOk == uploaded /\ fail /= "resize"
    IN [out |-> IF fail = "acquire" THEN "retry" ELSE IF allOk THEN "ok" ELSE "fatal",
        pool |-> IF fail = "acquire" THEN PoolName ELSE StoragePool,
        vols |-> IF fail = "acquire" THEN vols ELSE cv.vols,
        \* an upload that breaks off leaves the volume without a whole image
        image |-> IF fail /= "acquire" /\ uploaded THEN volImage \cup {primaryVolName}
                  ELSE IF cv.ok /\ fail = "upload" THEN volImage \ {primaryVolName}
                  ELSE volImage,
        volName |-> IF fail /= "acquire" /\ allOk THEN primaryVolName ELSE VmVolName,
        muts |-> muts]

provisionPrimaryDisk ==
    /\ phase = "provision" /\ StepNames[step] = "provisionPrimaryDisk"
    /\ \E fail \in {"none", "acquire", "getvol", "create", "open", "upload", "resize"} :
        LET r == PrimaryDisk(fail) IN
        /\ MayFail(fail /= "none") /\ Spend(fail /= "none")
        \* Acquire and the deferred Release: the image is cached, the count is back
        /\ files' = IF fail = "acquire" THEN files ELSE files \cup {imageKey}
        /\ whole' = IF fail = "acquire" THEN whole ELSE whole \cup {imageKey}
        /\ refs' = [refs EXCEPT ![imageKey] = DecRef(@ + 1)]
        /\ lastUsed' = IF fail /= "acquire" /\ ReleaseStamps(refs[imageKey] + 1)
                       THEN [lastUsed EXCEPT ![imageKey] = now]
                       ELSE lastUsed
        /\ PoolName' = r.pool
        /\ vols' = r.vols
        /\ volImage' = r.image
        /\ VmVolName' = r.volName
        /\ Finish("provisionPrimaryDisk", VmVolName /= "" /\ primaryVolName \in volImage,
                  r.out, r.muts, fail = "none")
    /\ UNCHANGED <<now, flight, pc, ckey, got, cancelledAt, calls, acquired, released,
                   fetches, coldStart, lastRel, op>>
    /\ UNCHANGED <<reqDisks, Uuid, SchematicId, AdditionalDisks, CidataVolName, VmName,
                   dom, domUuid, dels, fvars>>

\* provisionAdditionalDisks, provision.go:235-251: the volumes the loop creates when
\* createVolume fails at index failAt (Len(disks) = no failure)
RECURSIVE CreateDisks(_, _, _, _)
CreateDisks(vs, disks, idx, failAt) ==
    IF idx >= Len(disks)
    THEN [ok |-> TRUE, vols |-> vs, muts |-> <<>>]
    ELSE LET cv == createVolume(vs, additionalVolName(idx, disks[idx + 1]), FALSE,
                                idx = failAt)
         IN IF ~cv.ok
            THEN [ok |-> FALSE, vols |-> cv.vols, muts |-> cv.muts]
            ELSE LET rest == CreateDisks(cv.vols, disks, idx + 1, failAt)
                 IN [ok |-> rest.ok, vols |-> rest.vols, muts |-> cv.muts \o rest.muts]

\* provisionAdditionalDisks, provision.go:244-253: what the step records on success
RecordedDisks(disks) ==
    [i \in 1..Len(disks) |-> <<disks[i], additionalVolName(i - 1, disks[i])>>]

provisionAdditionalDisks ==
    /\ phase = "provision" /\ StepNames[step] = "provisionAdditionalDisks"
    /\ \E failAt \in 0..Len(reqDisks) :
        LET r == CreateDisks(vols, reqDisks, 0, failAt) IN
        /\ MayFail(failAt < Len(reqDisks)) /\ Spend(failAt < Len(reqDisks))
        /\ vols' = r.vols
        /\ AdditionalDisks' = IF r.ok /\ Len(reqDisks) > 0 THEN RecordedDisks(reqDisks)
                              ELSE AdditionalDisks
        /\ Finish("provisionAdditionalDisks",
                  AdditionalDisks = RecordedDisks(reqDisks)
                    /\ \A i \in 1..Len(reqDisks) :
                          additionalVolName(i - 1, reqDisks[i]) \in vols,
                  IF r.ok THEN "ok" ELSE "fatal", r.muts, failAt = Len(reqDisks))
    /\ UNCHANGED <<cvars, fvars, reqDisks, Uuid, SchematicId, PoolName, VmVolName,
                   CidataVolName, VmName, dom, domUuid, volImage, dels>>

\* configureHostname, provision.go:262-266: emits the hostname patch
configureHostname ==
    /\ phase = "provision" /\ StepNames[step] = "configureHostname"
    /\ Finish("configureHostname", FALSE, "ok", <<>>, TRUE)
    /\ UNCHANGED <<cvars, fvars, reqDisks, Uuid, SchematicId, PoolName, VmVolName,
                   AdditionalDisks, CidataVolName, VmName, dom, domUuid, vols, volImage,
                   faults, dels>>

\* the guest bootstrap payload step: a stale volume is replaced, the new image is
\* uploaded and the volume name is recorded
createCidata ==
    /\ phase = "provision" /\ StepNames[step] = "createCidata"
    /\ \E fails \in BOOLEAN :
        /\ MayFail(fails) /\ Spend(fails)
        /\ vols' = IF fails THEN vols ELSE vols \cup {cidataVolName}
        /\ volImage' = IF fails THEN volImage ELSE volImage \cup {cidataVolName}
        /\ CidataVolName' = IF fails THEN CidataVolName ELSE cidataVolName
        /\ Finish("createCidata", FALSE, IF fails THEN "retry" ELSE "ok",
                  IF fails THEN <<>>
                  ELSE (IF cidataVolName \in vols THEN <<"delete">> ELSE <<>>)
                       \o <<"create", "upload">>,
                  ~fails)
    /\ UNCHANGED <<cvars, fvars, reqDisks, Uuid, SchematicId, PoolName, VmVolName,
                   AdditionalDisks, VmName, dom, domUuid, dels>>

\* createVM, provision.go:308: the slot of the primary disk
primaryDev == "vda"

\* createVM, provision.go:337: fmt.Sprint(rune('a' + n)) prints the code point of the
\* rune as a decimal number
SprintRune(n) == ToString(97 + n)

\* createVM, provision.go:335-339: the loop that builds the suffix of a sata slot
RECURSIVE sataSuffix(_, _)
sataSuffix(idx, s) ==
    IF idx < 0 THEN s
    ELSE sataSuffix((idx \div 26) - 1, SprintRune(idx % 26) \o s)

\* variant: the slot letter wraps around after the 26th
sataDevWraps(sataDiskCount) == "sd" \o SprintRune(sataDiskCount % 26)

\* createVM, provision.go:341
sataDev(sataDiskCount) == "sd" \o sataSuffix(sataDiskCount, "")

\* createVM, provision.go:327
nvmeDev(nvmeDiskCount) == "nvme" \o ToString(nvmeDiskCount) \o "n1"

\* createVM, provision.go:321-349: the slots of the additional disks from position i
\* on; an unknown disk type ends the step with an error
RECURSIVE assignSlots(_, _, _, _)
assignSlots(disks, i, sataDiskCount, nvmeDiskCount) ==
    IF i > Len(disks) THEN [ok |-> TRUE, devs |-> <<>>]
    ELSE IF disks[i] = "nvme"
    THEN LET rest == assignSlots(disks, i + 1, sataDiskCount, nvmeDiskCount + 1)
         IN [ok |-> rest.ok,
             devs |-> IF rest.ok THEN <<nvmeDev(nvmeDiskCount)>> \o rest.devs ELSE <<>>]
    ELSE IF disks[i] = "sata"
    THEN LET rest == assignSlots(disks, i + 1, sataDiskCount + 1, nvmeDiskCount)
         IN [ok |-> rest.ok,
             devs |-> IF rest.ok THEN <<sataDev(sataDiskCount)>> \o rest.devs ELSE <<>>]
    ELSE [ok |-> FALSE, devs |-> <<>>]

\* createVM, provision.go:316-319: sataDiskCount = 1 accounts for the root disk
createVMDisks(disks) == assignSlots(disks, 1, 1, 0)

\* variant: the define call leaves the hypervisor without the domain
DefinedNowhere(d) == d

\* DomainDefineXML: the domain is (re)defined under its name; a defined domain keeps
\* its run state
Defined(d) == IF d = "absent" THEN "shutoff" ELSE d

\* createVM, provision.go:268-498 ("none", "getvol", "define" are the places that fail)
createVM ==
    /\ phase = "provision" /\ StepNames[step] = "createVM"
    /\ \E fail \in {"none", "getvol", "define"} :
        LET waiting == VmVolName = ""
            gv == getVol(vols, VmVolName, fail = "getvol")
            defines == ~waiting /\ gv = "ok"
            out == IF waiting \/ gv /= "ok" THEN "retry"
                   ELSE IF fail = "define" THEN "fatal" ELSE "ok"
        IN /\ MayFail(fail /= "none") /\ Spend(fail /= "none")
           /\ fail = "getvol" => ~waiting
           /\ fail = "define" => defines
           /\ dom' = IF out = "ok" THEN Defined(dom) ELSE dom
           /\ domUuid' = IF out = "ok" THEN Uuid ELSE domUuid
           /\ VmName' = IF out = "ok" THEN vmName ELSE VmName
           /\ Finish("createVM", VmName /= "" /\ dom /= "absent", out,
                     IF defines THEN <<"define">> ELSE <<>>, fail = "none")
    /\ UNCHANGED <<cvars, fvars, reqDisks, Uuid, SchematicId, PoolName, VmVolName,
                   AdditionalDisks, CidataVolName, vols, volImage, dels>>

\* variant: a start call answered with "domain is already running" counts as failed
startVMStrict ==
    /\ phase = "provision" /\ StepNames[step] = "startVM"
    /\ \E fail \in {"none", "lookup", "state", "start"} :
        LET missing == VmName = "" \/ dom = "absent"
            looked == ~missing /\ fail \notin {"lookup", "state"}
            starts == looked /\ dom /= "running"
            out == IF ~looked THEN "retry"
                   ELSE IF starts /\ (fail = "start" \/ dom /= "shutoff") THEN "retry"
                   ELSE "ok"
        IN /\ MayFail(fail /= "none") /\ Spend(fail /= "none")
           /\ fail = "state" => ~missing
           /\ fail = "start" => starts
           /\ dom' = IF starts /\ fail /= "start" /\ dom = "shutoff" THEN "running" ELSE dom
           /\ Finish("startVM", dom = "running", out,
                     IF starts THEN <<"start">> ELSE <<>>, fail = "none")
    /\ UNCHANGED <<cvars, fvars, reqDisks, Uuid, SchematicId, PoolName, VmVolName,
                   AdditionalDisks, CidataVolName, VmName, domUuid, vols, volImage, dels>>

\* startVM, provision.go:500-528 ("none", "lookup", "state", "start" are the places
\* that fail); DomainCreate on an active domain fails with "domain is already running"
startVM ==
    /\ phase = "provision" /\ StepNames[step] = "startVM"
    /\ \E fail \in {"none", "lookup", "state", "start"} :
        LET missing == VmName = "" \/ dom = "absent"
            looked == ~missing /\ fail \notin {"lookup", "state"}
            starts == looked /\ dom /= "running"
            out == IF ~looked THEN "retry"
                   ELSE IF starts /\ fail = "start" THEN "retry"
                   ELSE "ok"
        IN /\ MayFail(fail /= "none") /\ Spend(fail /= "none")
           /\ fail = "state" => ~missing
           /\ fail = "start" => starts
           /\ dom' = IF starts /\ fail /= "start" /\ dom = "shutoff" THEN "running" ELSE dom
           /\ Finish("startVM", dom = "running", out,
                     IF starts THEN <<"start">> ELSE <<>>, fail = "none")
    /\ UNCHANGED <<cvars, fvars, reqDisks, Uuid, SchematicId, PoolName, VmVolName,
                   AdditionalDisks, CidataVolName, VmName, domUuid, vols, volImage, dels>>

\* the machine request is deleted: the driver turns to Deprovision
DeleteMachine ==
    /\ phase \in {"provision", "failed", "ready"}
    /\ phase' = "deprovision"
    /\ step' = 1
    /\ mop' = NoOp
    /\ UNCHANGED <<cvars, fvars, reqDisks, Uuid, SchematicId, PoolName, VmVolName,
                   AdditionalDisks, CidataVolName, VmName, dom, domUuid, vols, volImage,
                   faults, dels>>

\* variant: a domain that is neither running nor fully stopped is left aside and the
\* pass goes on to the volumes
removeDomainSkipsWaiting(d, fail, async) ==
    IF fail = "lookup" THEN [out |-> "error", dom |-> d, muts |-> <<>>]
    ELSE IF d = "absent" THEN [out |-> "go", dom |-> d, muts |-> <<>>]
    ELSE IF fail = "state" THEN [out |-> "error", dom |-> d, muts |-> <<>>]
    ELSE IF d = "running"
    THEN IF fail = "destroy" THEN [out |-> "error", dom |-> d, muts |-> <<"destroy">>]
         ELSE [out |-> "retry", dom |-> IF async THEN "shutdown" ELSE "shutoff",
               muts |-> <<"destroy">>]
    ELSE IF d = "shutoff"
    THEN IF fail = "undefine" THEN [out |-> "error", dom |-> d, muts |-> <<"undefine">>]
         ELSE [out |-> "go", dom |-> "absent", muts |-> <<"undefine">>]
    ELSE [out |-> "go", dom |-> d, muts |-> <<>>]

\* removeDomain, part_004:56-103: [out, dom, muts]; out "go" = continue with the volumes.
\* fail is "none", "lookup", "state", "destroy" or "undefine"; async tells whether a
\* stop that was requested is still in progress when DomainDestroy returns
removeDomain(d, fail, async) ==
    IF fail = "lookup" THEN [out |-> "error", dom |-> d, muts |-> <<>>]
    ELSE IF d = "absent" THEN [out |-> "go", dom |-> d, muts |-> <<>>]
    ELSE IF fail = "state" THEN [out |-> "error", dom |-> d, muts |-> <<>>]
    ELSE IF d = "running"
    THEN IF fail = "destroy" THEN [out |-> "error", dom |-> d, muts |-> <<"destroy">>]
         ELSE [out |-> "retry", dom |-> IF async THEN "shutdown" ELSE "shutoff",
               muts |-> <<"destroy">>]
    ELSE IF d = "shutdown" THEN [out |-> "retry", dom |-> d, muts |-> <<>>]
    ELSE IF d = "shutoff"
    THEN IF fail = "undefine" THEN [out |-> "error", dom |-> d, muts |-> <<"undefine">>]
         ELSE [out |-> "go", dom |-> "absent", muts |-> <<"undefine">>]
    ELSE [out |-> "retry", dom |-> d, muts |-> <<>>]

\* variant: a volume that is not found is not told apart from one that is there
VolGoneIgnored(vs, volName) == getVol(vs, volName, FALSE) = "err"

\* removeVolMain / removeVolAdditionalDisks / removeVolCidata, part_004:105-169: the
\* volume is looked up and, when it is there, deleted
VolGone(vs, volName) == getVol(vs, volName, FALSE) = "noexist"

\* the volumes Deprovision removes, in order: main, additional disks, cidata
RecordedVols ==
    <<VmVolName>> \o [i \in 1..Len(AdditionalDisks) |-> AdditionalDisks[i][2]]
                  \o (IF CidataVolName /= "" THEN <<CidataVolName>> ELSE <<>>)

\* the removeVol* calls in sequence: [ok, vols, muts, deleted]; the call at position
\* failAt fails, in its lookup (failKind = "lookup") or in its delete
RECURSIVE removeVols(_, _, _, _, _)
removeVols(vs, names, i, failAt, failKind) ==
    IF i > Len(names)
    THEN [ok |-> TRUE, vols |-> vs, muts |-> <<>>, deleted |-> <<>>]
    ELSE IF i = failAt /\ failKind = "lookup"
    THEN [ok |-> FALSE, vols |-> vs, muts |-> <<>>, deleted |-> <<>>]
    ELSE IF VolGone(vs, names[i])
    THEN removeVols(vs, names, i + 1, failAt, failKind)
    ELSE IF i = failAt
    THEN [ok |-> FALSE, vols |-> vs, muts |-> <<"delete">>, deleted |-> <<>>]
    ELSE LET rest == removeVols(vs \ {names[i]}, names, i + 1, failAt, failKind)
         IN [ok |-> rest.ok, vols |-> rest.vols, muts |-> <<"delete">> \o rest.muts,
             deleted |-> <<names[i]>> \o rest.deleted]

\* Deprovision, part_004:37: the pool or the primary volume name is not recorded
EmptyNames == PoolName = "" \/ VmVolName = ""

Count(q, x) == Cardinality({i \in 1..Len(q) : q[i] = x})

\* Deprovision, part_004:23-54: one pass
Deprovision ==
    /\ phase \in {"deprovision", "removed"}
    /\ \E fail \in {"none", "lookup", "state", "destroy", "undefine", "vol"},
          async \in BOOLEAN,
          failAt \in 0..(Len(RecordedVols)),
          failKind \in {"lookup", "delete"} :
        LET rd == removeDomain(dom, IF fail = "vol" THEN "none" ELSE fail, async)
            at == IF fail = "vol" THEN failAt ELSE 0
            rv == removeVols(vols, RecordedVols, 1, at, failKind)
            volPhase == rd.out = "go" /\ ~EmptyNames
            out == IF rd.out /= "go" THEN rd.out
                   ELSE IF EmptyNames THEN "error"
                   ELSE IF rv.ok THEN "ok" ELSE "error"
        IN /\ MayFail(fail /= "none") /\ Spend(fail /= "none")
           \* each choice stands for one run of the code
           /\ fail = "state" => dom /= "absent"
           /\ fail = "destroy" => dom = "running"
           /\ fail = "undefine" => dom = "shutoff"
           /\ async => (dom = "running" /\ fail \in {"none"})
           /\ fail = "vol" <=> failAt > 0
           /\ fail = "vol" => volPhase /\ ~rv.ok
           /\ fail /= "vol" => failKind = "lookup"
           /\ dom' = rd.dom
           /\ vols' = IF volPhase THEN rv.vols ELSE vols
           /\ volImage' = IF volPhase THEN volImage \cap rv.vols ELSE volImage
           /\ dels' = IF volPhase
                      THEN [v \in VolNames |-> dels[v] + Count(rv.deleted, v)]
                      ELSE dels
           /\ phase' = IF out = "ok" THEN "removed" ELSE phase
           /\ mop' = [step |-> "Deprovision", done |-> phase = "removed", out |-> out,
                      muts |-> rd.muts \o (IF volPhase THEN rv.muts ELSE <<>>),
                      clean |-> fail = "none"]
    /\ UNCHANGED <<cvars, fvars, reqDisks, Uuid, SchematicId, PoolName, VmVolName,
                   AdditionalDisks, CidataVolName, VmName, domUuid, step>>

\* the hypervisor completes a stop that was requested
HvStopCompletes ==
    /\ dom = "shutdown"
    /\ dom' = "shutoff"
    /\ UNCHANGED <<cvars, fvars, reqDisks, Uuid, SchematicId, PoolName, VmVolName,
                   AdditionalDisks, CidataVolName, VmName, domUuid, vols, volImage,
                   phase, step, faults, dels, mop>>

\* the running guest is suspended from outside (a state Deprovision does not know)
HvPause ==
    /\ dom = "running"
    /\ faults < MaxFaults
    /\ dom' = "paused"
    /\ faults' = faults + 1
    /\ UNCHANGED <<cvars, fvars, reqDisks, Uuid, SchematicId, PoolName, VmVolName,
                   AdditionalDisks, CidataVolName, VmName, domUuid, vols, volImage,
                   phase, step, dels, mop>>

\* the defined guest is started from outside while the pipeline is still at work (the
\* race startVM allows for, provision.go:515-523)
HvStart ==
    /\ phase = "provision"
    /\ dom = "shutoff"
    /\ dom' = "running"
    /\ UNCHANGED <<cvars, fvars, reqDisks, Uuid, SchematicId, PoolName, VmVolName,
                   AdditionalDisks, CidataVolName, VmName, domUuid, vols, volImage,
                   phase, step, faults, dels, mop>>

HvResume ==
    /\ dom = "paused"
    /\ dom' = "running"
    /\ UNCHANGED <<cvars, fvars, reqDisks, Uuid, SchematicId, PoolName, VmVolName,
                   AdditionalDisks, CidataVolName, VmName, domUuid, vols, volImage,
                   phase, step, faults, dels, mop>>

ProvisionStep ==
    \/ generateUUID
    \/ createSchematic
    \/ provisionPrimaryDisk
    \/ provisionAdditionalDisks
    \/ configureHostname
    \/ createCidata
    \/ createVM
    \/ startVM

NextMachine ==
    \/ ProvisionStep
    \/ DeleteMachine
    \/ Deprovision
    \/ HvStopCompletes
    \/ HvPause
    \/ HvStart
    \/ HvResume

\* no helper function has been called
InitFnState ==
    /\ fn = "none"
    /\ args = <<>>
    /\ result = <<>>

InitMachine ==
    /\ InitCacheState
    /\ files = {}
    /\ whole = {}
    /\ reqDisks \in SeqsUpTo(DiskTypes, MaxDisks)
    /\ InitMachineState
    /\ InitFnState

\* the life of one machine: provisioning passes, then Deprovision passes
MachineSpec == InitMachine /\ [][NextMachine]_vars

\* the driver keeps invoking the pipeline or Deprovision, and the hypervisor completes
\* what it was asked to do
FairMachineSpec ==
    /\ MachineSpec
    /\ WF_vars(ProvisionStep)
    /\ WF_vars(Deprovision)
    /\ WF_vars(HvStopCompletes)
    /\ WF_vars(HvResume)

(***************************************************************************)
(* The helper functions on their own: getVol, createVolume and the disk    *)
(* slots of createVM, called with arguments from bounded sets.             *)
(***************************************************************************)
\* the volumes of the pool in a call of getVol or createVolume
FnVols == {primaryVolName, additionalVolName(0, "sata")}

\* the types of additional disks a MachineState may record
SlotTypes == {"sata", "nvme", "scsi"}

\* the lists of additional disks: short mixed ones and long ones of one type
SlotInputs == SeqsUpTo(SlotTypes, MaxMixed)
              \cup {[i \in 1..n |-> "sata"] : n \in 0..MaxSata}

ApplyGetVol ==
    /\ \E vs \in SUBSET FnVols, volName \in FnVols, lookupFails \in BOOLEAN :
        /\ fn' = "getVol"
        /\ args' = <<vs, volName, lookupFails>>
        /\ result' = getVol(vs, volName, lookupFails)
    /\ UNCHANGED <<cvars, mvars>>

ApplyCreateVolume ==
    /\ \E vs \in SUBSET FnVols, volName \in FnVols,
          lookupFails \in BOOLEAN, createFails \in BOOLEAN :
        /\ fn' = "createVolume"
        /\ args' = <<vs, volName, lookupFails, createFails>>
        /\ result' = createVolume(vs, volName, lookupFails, createFails)
    /\ UNCHANGED <<cvars, mvars>>

ApplyCreateVMDisks ==
    /\ \E disks \in SlotInputs :
        /\ fn' = "createVMDisks"
        /\ args' = <<disks>>
        /\ result' = createVMDisks(disks)
    /\ UNCHANGED <<cvars, mvars>>

\* the volume names a MachineState may record for cleanup: main, additional disks,
\* cidata (left out when CidataVolName is empty, part_004:150)
CleanupLists == {<<primaryVolName>>,
                 <<primaryVolName, cidataVolName>>,
                 <<primaryVolName, additionalVolName(0, "sata"), cidataVolName>>}

ApplyRemoveVols ==
    /\ \E names \in CleanupLists, failKind \in {"lookup", "delete"} :
        \E vs \in SUBSET {names[i] : i \in 1..Len(names)}, failAt \in 0..Len(names) :
            /\ fn' = "removeVols"
            /\ args' = <<vs, names, failAt, failKind>>
            /\ result' = removeVols(vs, names, 1, failAt, failKind)
    /\ UNCHANGED <<cvars, mvars>>

\* schematic ids and OS versions as Acquire may be handed them: both are plain strings
\* (images.go:77), and a pre-release version carries a "-"
SchematicInputs == {"cafe", "cafe-v1.8.0"}
VersionInputs == {"alpha.1", "v1.8.0-alpha.1"}

\* Acquire, images.go:78-79, for two calls: the key of each and the path each returns
ApplyCacheKey ==
    /\ \E s1 \in SchematicInputs, v1 \in VersionInputs,
          s2 \in SchematicInputs, v2 \in VersionInputs :
        /\ fn' = "cacheKey"
        /\ args' = <<<<s1, v1>>, <<s2, v2>>>>
        /\ result' = [keys |-> <<cacheKey(s1, v1), cacheKey(s2, v2)>>,
                      paths |-> <<filePath(cacheKey(s1, v1)), filePath(cacheKey(s2, v2))>>]
    /\ UNCHANGED <<cvars, mvars>>

InitFn ==
    /\ InitCacheState
    /\ files = {}
    /\ whole = {}
    /\ reqDisks = <<>>
    /\ InitMachineState
    /\ InitFnState

NextFn ==
    \/ ApplyGetVol
    \/ ApplyCreateVolume
    \/ ApplyCreateVMDisks
    \/ ApplyRemoveVols
    \/ ApplyCacheKey

\* calls of the helper functions, one after the other
FnSpec == InitFn /\ [][NextFn]_vars

(***************************************************************************)
(* Properties of the image cache (specification Spec).                     *)
(***************************************************************************)
\* the callers inside an Acquire call for k that has not returned yet
InProgress(k) == {c \in Callers : ckey[c] = k /\ pc[c] \in {"do", "wait", "fetch", "copy", "rollback"}}

\* the callers that hold a path of k
Holders(k) == {c \in Callers : ckey[c] = k /\ pc[c] = "hold"}

\* C1: whatever the interleaving of Acquire, Release and the sweep, every file a
\* sweep has just deleted has reference count 0, and a file that a caller holds or
\* is acquiring is in the directory's bookkeeping with a positive count.
SweepSparesReferenced ==
    /\ op[1] = "cleanup" => \A e \in op[2] : refs[e[1]] = 0
    /\ \A k \in Keys : Holders(k) /= {} => refs[k] > 0 /\ k \in files

\* C1 witness: a sweep has just run over a referenced file whose recorded idle time is
\* at least MaxAge old, and the file is still there.
SweepSparesReferencedWitness ==
    /\ op[1] = "cleanup"
    /\ \E k \in Keys : /\ k \in files
                       /\ refs[k] > 0
                       /\ lastUsed[k] /= NoTime
                       /\ now - lastUsed[k] >= MaxAge

\* C2: when the file of a key was absent at the first Acquire, no Release was issued
\* and all N Acquire calls for the key have returned a path, exactly one download of
\* the key was started and every caller holds the same path.
OneDownloadForAll ==
    \A k \in Keys :
        (coldStart[k] /\ released[k] = 0 /\ calls[k] >= 1 /\ acquired[k] = calls[k])
        => /\ fetches[k] = 1
           /\ \A c \in Holders(k) : got[c] = filePath(k)
           /\ Cardinality(Holders(k)) = calls[k]

\* C2 witness: one download has just handed its path to two coalesced callers.
OneDownloadForAllWitness ==
    /\ op[1] = "ok"
    /\ Cardinality(op[3]) >= 2
    /\ coldStart[op[2]] /\ released[op[2]] = 0
    /\ acquired[op[2]] = calls[op[2]]
    /\ fetches[op[2]] = 1

RefCountIsAcquiresMinusReleases ==
    \A k \in Keys :
        /\ refs[k] = Cardinality(InProgress(k)) + acquired[k] - released[k]
        /\ InProgress(k) = {} => refs[k] = acquired[k] - released[k]
        /\ (op = <<"release", k>> /\ refs[k] = 0) => lastUsed[k] = now

\* C9 witness: two Acquire calls returned, then two Release calls; the count is 0.
RefCountIsAcquiresMinusReleasesWitness ==
    \E k \in Keys : /\ op = <<"release", k>>
                    /\ acquired[k] = 2 /\ released[k] = 2
                    /\ refs[k] = 0
                    /\ lastUsed[k] = now

\* the count of k once the callers in S have given their references back
CountWithout(k, S) == Cardinality(InProgress(k) \ S) + acquired[k] - released[k]

\* C10: when a download fails, every caller coalesced on it is on the error path with
\* no path returned, the count of the key without their increments is what the other
\* calls account for, and the calls of the group started one fetch between them.
FailureReachesAllAndRollsBack ==
    /\ op[1] = "fail" =>
          /\ \A c \in op[3] : pc[c] = "rollback" /\ got[c] = "" /\ ckey[c] = op[2]
          /\ refs[op[2]] - Cardinality(op[3]) = CountWithout(op[2], op[3])
          /\ fetches[op[2]] <= calls[op[2]] - Cardinality(op[3]) + 1
    /\ op[1] = "rollback" =>
          refs[op[2]] = Cardinality(InProgress(op[2])) + acquired[op[2]] - released[op[2]]

\* C10 witness: a download with two coalesced callers has just failed.
FailureReachesAllAndRollsBackWitness ==
    /\ op[1] = "fail"
    /\ Cardinality(op[3]) >= 2

\* the callers that run the download of k
Leaders(k) == {c \in Callers : ckey[c] = k /\ pc[c] \in {"fetch", "copy"}}

\* the callers that wait for the download of k another caller runs
Waiters(k) == {c \in Callers : ckey[c] = k /\ pc[c] = "wait"}

\* C11: at most one fetch per key is in flight; a caller that arrived while a fetch
\* for its key was in flight waits for that fetch, which is still running, and starts
\* none of its own; and when the fetch ends every caller coalesced on it has the same
\* outcome and nobody is left waiting.
OneFetchInFlight ==
    /\ \A k \in Keys :
        /\ Cardinality(Leaders(k)) <= 1
        /\ flight[k] <=> Leaders(k) /= {}
        /\ Waiters(k) /= {} => Leaders(k) /= {}
        /\ fetches[k] + Cardinality(Waiters(k)) <= calls[k]
    /\ op[1] = "ok" =>
          /\ \A c \in op[3] : pc[c] = "hold" /\ got[c] = filePath(op[2])
          /\ Waiters(op[2]) = {}
    /\ op[1] = "fail" =>
          /\ \A c \in op[3] : pc[c] = "rollback" /\ got[c] = ""
          /\ Waiters(op[2]) = {}

\* C11 witness: a caller has just joined the fetch another caller runs for its key.
OneFetchInFlightWitness ==
    /\ op[1] = "join"
    /\ \E k \in Keys : Waiters(k) /= {} /\ Leaders(k) /= {} /\ fetches[k] = 1

\* C12: a sweep deletes an unreferenced file with a recorded idle time only when its
\* idle duration exceeds MaxAge, and every such file whose idle duration exceeds
\* MaxAge is deleted.
SweepDeletesOnlyPastMaxAge ==
    op[1] = "cleanup" =>
        /\ \A e \in op[2] : e[2] > MaxAge
        /\ \A k \in files : (refs[k] = 0 /\ lastUsed[k] /= NoTime)
                               => now - lastUsed[k] <= MaxAge

(***************************************************************************)
(* Properties of the helper functions (specification FnSpec).              *)
(***************************************************************************)
Alphabet == <<"a", "b", "c", "d", "e", "f", "g", "h", "i", "j", "k", "l", "m",
              "n", "o", "p", "q", "r", "s", "t", "u", "v", "w", "x", "y", "z">>

Letters == {Alphabet[i] : i \in 1..Len(Alphabet)}

\* the rank of disk i among the disks of its type in the list
NthOfType(disks, i) == Cardinality({j \in 1..i : disks[j] = disks[i]})

\* C16: in the descriptor createVM builds, the first additional sata disk has the
\* slot after the primary disk's (letter b), the 26th a slot with a one-letter suffix
\* and the 27th a slot with a two-letter suffix.
SataSlotsAreLetters ==
    (fn = "createVMDisks" /\ result.ok) =>
        \A i \in 1..Len(args[1]) :
            args[1][i] = "sata" =>
                /\ NthOfType(args[1], i) = 1 => result.devs[i] = "sdb"
                /\ NthOfType(args[1], i) = 26 =>
                      result.devs[i] \in {"sd" \o x : x \in Letters}
                /\ NthOfType(args[1], i) = 27 =>
                      result.devs[i] \in {"sd" \o x \o y : x \in Letters, y \in Letters}

\* C17 as stated: getVol returns a handle or the not-exists condition for every
\* response of the hypervisor, never another error.
GetVolNeverFails == fn = "getVol" => result \in {"ok", "noexist"}

\* C17 as amended: getVol returns a handle when the lookups succeed and the volume is
\* there, the not-exists condition when the lookups succeed and the volume is not
\* there, and the error of the lookup when the pool lookup or the volume lookup
\* fails for another reason.
GetVolThreeOutcomes ==
    fn = "getVol" =>
        /\ result = "ok" <=> (~args[3] /\ args[2] \in args[1])
        /\ result = "noexist" <=> (~args[3] /\ args[2] \notin args[1])
        /\ result = "err" <=> args[3]

\* C17 witness: a lookup of an existing volume failed and getVol returned the error.
GetVolThreeOutcomesWitness ==
    /\ fn = "getVol"
    /\ args[3] /\ args[2] \in args[1]
    /\ result = "err"

\* C18: createVolume returns an existing volume without a create call and leaves the
\* pool as it is; only for a volume that does not exist does it issue one create
\* call.
CreateVolumeGetOrCreate ==
    fn = "createVolume" =>
        /\ args[2] \in args[1] =>
              /\ result.ok
              /\ result.muts = <<>>
              /\ result.vols = args[1]
        /\ args[2] \notin args[1] => result.muts = <<"create">>

(***************************************************************************)
(* Properties of one machine (MachineSpec, FairMachineSpec).               *)
(***************************************************************************)
\* C4: once the driver has turned to Deprovision, repeated passes lead to a pass
\* that reports success.
DeprovisionConverges == (phase = "deprovision") ~> (phase = "removed")

\* the volumes recorded in MachineState
RecordedSet == {RecordedVols[i] : i \in 1..Len(RecordedVols)} \ {""}

\* C5: over all Deprovision passes no volume is deleted twice; after a pass that
\* reported success every recorded volume is gone and was deleted once; and a pass
\* after that one, with the lookups answering, issues no mutating call and reports
\* success.
VolumesDeletedOnce ==
    /\ \A v \in VolNames : dels[v] <= 1
    /\ phase = "removed" => \A v \in RecordedSet : v \notin vols /\ dels[v] = 1
    /\ (mop.step = "Deprovision" /\ mop.done)
          => mop.muts = <<>> /\ (mop.clean => mop.out = "ok")

\* C5 witness: Deprovision has run again after its first success, for a machine with
\* a primary volume, an additional disk and a bootstrap volume.
VolumesDeletedOnceWitness ==
    /\ mop.step = "Deprovision" /\ mop.done /\ mop.clean
    /\ Len(AdditionalDisks) > 0
    /\ CidataVolName /= ""
    /\ \A v \in RecordedSet : dels[v] = 1

\* C6: when Deprovision has reported success, no domain and no volume of the machine
\* is left on the hypervisor.
SuccessLeavesNothing == phase = "removed" => dom = "absent" /\ vols = {}

\* C7: a step that runs against a state that already reflects its completion, with
\* every collaborator answering, issues no hypervisor mutation and reports success.
IdempotentSteps == {"generateUUID", "createSchematic", "provisionPrimaryDisk",
                    "provisionAdditionalDisks", "createVM", "startVM"}

RerunMutatesNothing ==
    (mop.step \in IdempotentSteps /\ mop.done /\ mop.clean)
        => mop.muts = <<>> /\ mop.out = "ok"

\* C8: the passes of the pipeline lead to a pass in which all steps succeed and the
\* domain is defined and running (unless the machine is deleted first).
PipelineCompletes ==
    <>(\/ phase = "ready" /\ dom = "running"
       \/ phase \in {"deprovision", "removed"})

\* C13: a UUID that the UUID step has persisted is not the UUID of an existing
\* domain, whatever the lookup answered.
PersistedUuidIsFree ==
    (mop.step = "generateUUID" /\ mop.out = "ok") => Uuid \notin ForeignUUIDs

\* C14: during provisioning a field of MachineState is present only if the step that
\* produces it has completed, and a step that has completed has left its field
\* present (pool name, primary volume name, additional disks, domain name, UUID).
FieldsFollowSteps ==
    phase \in {"provision", "failed", "ready"} =>
        /\ PoolName /= "" => VmVolName /= ""
        /\ VmVolName /= "" => PoolName /= "" /\ primaryVolName \in volImage
        /\ AdditionalDisks /= <<>> =>
              /\ AdditionalDisks = RecordedDisks(reqDisks)
              /\ \A i \in 1..Len(AdditionalDisks) : AdditionalDisks[i][2] \in vols
        /\ VmName /= "" => dom /= "absent" /\ VmVolName /= ""
        /\ (mop.step = "generateUUID" /\ mop.out = "ok") => Uuid /= ""
        /\ (mop.step = "provisionPrimaryDisk" /\ mop.out = "ok") => VmVolName /= ""
        /\ (mop.step = "provisionAdditionalDisks" /\ mop.out = "ok")
              => AdditionalDisks = RecordedDisks(reqDisks)
        /\ (mop.step = "createVM" /\ mop.out = "ok") => VmName /= ""

\* C15: no failure of a hypervisor or network call inside a provisioning step gives
\* a fatal outcome (no request of the model is malformed, so every failure in it is a
\* transient one).
NoTransientFatal == mop.out /= "fatal" /\ phase /= "failed"

\* C19: a Deprovision pass that finds the domain absent, with every lookup answering,
\* reports success in that pass.
AbsentDomainSucceeds ==
    (/\ mop.step = "Deprovision" /\ mop.clean
     /\ dom = "absent" /\ Count(mop.muts, "undefine") = 0)
        => mop.out = "ok"

\* C20: the primary-disk step leaves the reference count of every image key as it
\* found it, on every exit path; when Acquire succeeded the one Release of the step
\* has stamped the key, and when Acquire failed nothing was stamped.
PrimaryDiskKeepsCount ==
    [][(/\ phase = "provision" /\ StepNames[step] = "provisionPrimaryDisk"
        /\ mop'.step = "provisionPrimaryDisk") =>
          /\ refs' = refs
          /\ mop'.out = "retry" => lastUsed' = lastUsed
          /\ mop'.out /= "retry" => lastUsed'[imageKey] = now]_vars

\* C20 witness: the primary-disk step has ended with an error after a successful
\* Acquire, and the key is unreferenced and stamped.
PrimaryDiskKeepsCountWitness ==
    /\ mop.step = "provisionPrimaryDisk" /\ mop.out = "fatal"
    /\ refs[imageKey] = 0
    /\ lastUsed[imageKey] = now
    /\ imageKey \in files

\* C23: a pass of Deprovision that found the domain running and issued the stop call
\* reports retry, whether the stop call succeeded or failed, and deletes no volume
StopAlwaysRetries ==
    (mop.step = "Deprovision" /\ mop.muts /= <<>> /\ mop.muts[1] = "destroy") =>
        /\ mop.out = "retry"
        /\ Count(mop.muts, "delete") = 0

\* C24: a pass of Deprovision that observes the domain shutting down, or in a state
\* that is none of running, shutting down and fully stopped, issues no stop, undefine
\* or volume delete, changes nothing at the hypervisor and reports retry
WaitingStatesOnlyRetry ==
    [][(/\ mop'.step = "Deprovision" /\ mop' /= mop /\ mop'.clean
        /\ dom \in {"shutdown", "paused"})
       => /\ mop'.muts = <<>>
          /\ mop'.out = "retry"
          /\ dom' = dom /\ vols' = vols /\ dels' = dels /\ phase' = phase]_vars

\* a pass found the machine's domain suspended, touched nothing and asked for a retry
WaitingStatesOnlyRetryWitness ==
    /\ phase = "deprovision" /\ dom = "paused"
    /\ mop.step = "Deprovision" /\ mop.clean
    /\ mop.out = "retry" /\ mop.muts = <<>>

\* C25: volumes are deleted only in a pass that first found the domain absent or
\* undefined it: no volume is deleted while the domain is defined, and a pass whose
\* domain lookup or undefine failed deletes nothing
VolumesAfterDomain ==
    /\ dom /= "absent" => \A v \in VolNames : dels[v] = 0
    /\ (mop.step = "Deprovision" /\ Count(mop.muts, "delete") > 0) => dom = "absent"
    /\ (mop.step = "Deprovision" /\ dom /= "absent" /\ mop.out = "error") =>
           mop.muts \in {<<>>, <<"destroy">>, <<"undefine">>}

\* a pass undefined the fully stopped domain and then deleted the machine's volumes
VolumesAfterDomainWitness ==
    /\ mop.step = "Deprovision" /\ mop.out = "ok"
    /\ mop.muts /= <<>> /\ mop.muts[1] = "undefine"
    /\ Count(mop.muts, "delete") >= 2
    /\ dom = "absent"

\* C26: volume cleanup skips every recorded volume that is not found and goes on; a
\* lookup that fails otherwise, or a delete that fails, ends the pass with an error:
\* the volumes before that place are gone, that one and the ones after it are as
\* they were
CleanupSkipsMissingStopsOnError ==
    fn = "removeVols" =>
        LET vs == args[1]
            names == args[2]
            failAt == args[3]
            failKind == args[4]
            fails == failAt > 0 /\ (failKind = "lookup" \/ names[failAt] \in vs)
            stop == IF fails THEN failAt ELSE Len(names) + 1
            before == {i \in 1..Len(names) : i < stop}
        IN /\ result.ok = ~fails
           /\ result.vols = vs \ {names[i] : i \in before}
           /\ Len(result.deleted) = Cardinality({i \in before : names[i] \in vs})
           /\ \A j \in 1..Len(result.deleted) : result.deleted[j] \in vs
           /\ Count(result.muts, "delete")
                  = Len(result.deleted) + (IF fails /\ failKind = "delete" THEN 1 ELSE 0)

\* the first volume was not found and skipped, the delete of the second failed, the
\* third is still there
CleanupSkipsMissingStopsOnErrorWitness ==
    /\ fn = "removeVols"
    /\ Len(args[2]) = 3 /\ args[3] = 2 /\ args[4] = "delete"
    /\ args[1] = {args[2][2], args[2][3]}
    /\ ~result.ok /\ result.vols = args[1] /\ result.deleted = <<>>

\* C27: the UUID of the machine's domain is the UUID in MachineState, in every pass
\* after the one that persisted it
DomainUuidIsMachineUuid ==
    dom /= "absent" => domUuid = Uuid

\* the base-26 letter sequence of a counter: a, b, ..., z, aa, ab, ...
RECURSIVE Base26(_)
Base26(n) == IF n < Len(Alphabet) THEN Alphabet[n + 1]
             ELSE Base26((n \div Len(Alphabet)) - 1) \o Alphabet[(n % Len(Alphabet)) + 1]

\* C28: createVM gives every recorded additional disk a slot: the k-th nvme disk
\* (k from 0) the k-th nvme slot, whatever other disks come before it, and every disk
\* of another type the prefix followed by the letter sequence of a counter that is 1
\* for the first such disk and goes up by one with each
EveryDiskGetsItsSlot ==
    fn = "createVMDisks" =>
        LET disks == args[1] IN
        /\ result.ok
        /\ Len(result.devs) = Len(disks)
        /\ \A i \in 1..Len(disks) :
             result.devs[i] =
                 IF disks[i] = "nvme"
                 THEN nvmeDev(NthOfType(disks, i) - 1)
                 ELSE "sd" \o Base26(Cardinality({j \in 1..i : disks[j] /= "nvme"}))

\* C29: a run of startVM issues no start call for a domain reported running and
\* succeeds; it succeeds when the start call is answered "already running"; it reports
\* retry, never success and never a fatal error, when the start call fails otherwise or
\* the domain cannot be looked up
StartIsIdempotent ==
    [][(phase = "provision" /\ StepNames[step] = "startVM" /\ mop'.step = "startVM")
       => /\ mop'.out \in {"ok", "retry"}
          /\ dom = "running" => mop'.muts = <<>>
          /\ (dom = "running" /\ mop'.clean) => mop'.out = "ok"
          /\ (mop'.muts = <<"start">> /\ mop'.clean) => mop'.out = "ok"
          /\ ~mop'.clean => (mop'.out = "retry" /\ dom' = dom)
          /\ (VmName = "" \/ dom = "absent") => (mop'.out = "retry" /\ mop'.muts = <<>>)
          /\ mop'.out = "ok" => dom' /= "absent"]_vars

\* the start call for a suspended guest was answered "already running" and the step
\* succeeded
StartIsIdempotentWitness ==
    /\ mop.step = "startVM" /\ mop.out = "ok" /\ mop.clean
    /\ mop.muts = <<"start">>
    /\ dom = "paused" /\ phase = "ready"

DefineOverwrites ==
    /\ []((VmName /= "" /\ phase \in {"provision", "failed", "ready"}) => dom /= "absent")
    /\ [][(phase = "provision" /\ StepNames[step] = "createVM" /\ mop'.step = "createVM")
          => IF mop'.out = "ok"
             THEN /\ mop'.muts = <<"define">>
                  /\ dom' /= "absent" /\ domUuid' = Uuid
                  /\ dom /= "absent" => dom' = dom
                  /\ VmName' = vmName
             ELSE /\ dom' = dom /\ domUuid' = domUuid
                  /\ VmName' = VmName]_vars

\* createVM ran again for a machine whose domain was defined, with another UUID in
\* MachineState, and the domain now carries that one
DefineOverwritesWitness ==
    /\ mop.step = "createVM" /\ mop.done /\ mop.out = "ok"
    /\ mop.muts = <<"define">>
    /\ dom /= "absent" /\ domUuid = Uuid /\ Uuid = "u3" /\ VmName = vmName

\* C32: a Release call that leaves the count at zero stamps the key's idle time with
\* the time of the call, and the idle time a sweep finds recorded for an unreferenced
\* cached file is the time of the latest Release call for its key
IdleSinceLastRelease ==
    /\ (op[1] = "release" /\ refs[op[2]] = 0) => lastUsed[op[2]] = now
    /\ \A k \in Keys :
          (k \in files /\ ~InUse(k) /\ ~NoMetadata(k) /\ lastRel[k] /= NoTime)
              => lastUsed[k] = lastRel[k]

\* C33: a sweep that finds an unreferenced file with no idle time recorded keeps the
\* file and records the time of the sweep for it; a cached image is deleted only by
\* a sweep that found an idle time recorded for it
UnknownAgeIsStampedNotDeleted ==
    [][/\ op'[1] = "cleanup" =>
            \A n \in files :
                (refs[n] = 0 /\ lastUsed[n] = NoTime) => (n \in files' /\ lastUsed'[n] = now)
       /\ \A k \in Keys :
            (k \in files /\ k \notin files') => (op'[1] = "cleanup" /\ lastUsed[k] /= NoTime)
      ]_vars

\* a file that was in the directory from the start, never acquired, met its first
\* sweep when MaxAge had passed: it is still there, stamped with the time of the sweep
UnknownAgeIsStampedNotDeletedWitness ==
    /\ op = <<"cleanup", {}>>
    /\ now >= MaxAge
    /\ \E k \in Keys : k \in files /\ calls[k] = 0 /\ refs[k] = 0 /\ lastUsed[k] = now

\* C34: with a source that answers in full, no cancellation of a caller's context makes
\* a download fail: no call ends with an error, and every download that ends hands the
\* path to each caller coalesced on it
CancelDoesNotAbort ==
    /\ op[1] /= "fail"
    /\ \A c \in Callers : pc[c] /= "rollback"
    /\ op[1] = "ok" => \A c \in op[3] : pc[c] = "hold" /\ got[c] = filePath(op[2])

\* the context of the caller that ran the download was cancelled during the fetch or
\* the copy; the download ended well and another caller, coalesced on it, got the path
CancelDoesNotAbortWitness ==
    /\ op[1] = "ok" /\ fetches[op[2]] = 1
    /\ \E c, d \in op[3] :
          /\ c /= d
          /\ cancelledAt[c] \in {"fetch", "copy"}
          /\ cancelledAt[d] = "none" /\ got[d] = filePath(op[2])

\* C35: no reference count is ever below 0, whatever Release calls come without an
\* Acquire call behind them and whatever error paths of Acquire run side by side
RefCountNeverNegative ==
    \A n \in Names : refs[n] >= 0

\* a Release call came for a key whose count was already 0, after more Release calls
\* than Acquire calls had returned a path
RefCountNeverNegativeWitness ==
    /\ op[1] = "release"
    /\ released[op[2]] > acquired[op[2]]
    /\ released[op[2]] > calls[op[2]]
    /\ refs[op[2]] = 0

\* C36: an Acquire call for a key resets the key's last-used timestamp: right after
\* the call has taken its reference the timestamp is the time of the call, or none
AcquireResetsLastUsed ==
    [][\A c \in Callers :
          (pc[c] = "idle" /\ pc'[c] = "do") => lastUsed'[ckey'[c]] \in {now, NoTime}]_vars

\* C37: while a download is copying the body, its temp file is in the cache
\* directory: no sweep deletes it
TempFileOutlastsDownload ==
    \A c \in Callers : pc[c] = "copy" => tempName(ckey[c]) \in files

\* C39: the slot names createVM gives the additional disks of one descriptor are
\* pairwise distinct, and none is the slot of the primary disk or the letter slot kept
\* free for it
SlotsArePairwiseDistinct ==
    (fn = "createVMDisks" /\ result.ok) =>
        /\ \A i, j \in 1..Len(result.devs) : i /= j => result.devs[i] /= result.devs[j]
        /\ \A i \in 1..Len(result.devs) : result.devs[i] \notin {primaryDev, sataDev(0)}

\* a descriptor with slots of one and of two letters, or with slots on both buses
SlotsArePairwiseDistinctWitness ==
    /\ fn = "createVMDisks" /\ result.ok
    /\ \/ Len(result.devs) >= 27
       \/ \E i, j \in 1..Len(result.devs) : args[1][i] = "nvme" /\ args[1][j] = "sata"

\* C40: Acquire calls for two different (schematic id, OS version) pairs use different
\* reference-count entries and return different file paths
CacheKeyIsInjective ==
    (fn = "cacheKey" /\ args[1] /= args[2]) =>
        /\ result.keys[1] /= result.keys[2]
        /\ result.paths[1] /= result.paths[2]

\* C21: the file at a key's final cache path is always a completely downloaded image:
\* a final path comes into being only by the rename of that key's temp file at the end
\* of a download that succeeded, and a download that failed leaves no temp file behind
\* and leaves the final path and its content as they were
FinalPathIsWholeImage ==
    /\ [](\A k \in Keys : k \in files => k \in whole)
    /\ [][/\ \A k \in Keys :
               (k \notin files /\ k \in files') =>
                   /\ op'[1] = "ok" /\ op'[2] = k
                   /\ tempName(k) \in files /\ tempName(k) \notin files'
          /\ op'[1] = "fail" =>
                   /\ tempName(op'[2]) \notin files'
                   /\ (op'[2] \in files') = (op'[2] \in files)
                   /\ (op'[2] \in whole') = (op'[2] \in whole)]_vars

\* a first download of the key failed, a second one succeeded and its image is in place
FinalPathIsWholeImageWitness ==
    /\ op[1] = "ok"
    /\ coldStart[op[2]] /\ fetches[op[2]] = 2 /\ acquired[op[2]] = 1
    /\ op[2] \in files /\ op[2] \in whole

InitCache ==
    /\ InitCacheState
    /\ files \in SUBSET Keys
    /\ whole = files
    /\ reqDisks = <<>>
    /\ InitMachineState
    /\ InitFnState

NextCache ==
    /\ \/ \E c \in Callers : AcquireInc(c)
       \/ \E c \in Callers : DoEnter(c)
       \/ \E c \in Callers : DownloadFetchFail(c)
       \/ \E c \in Callers : DownloadCreateTemp(c)
       \/ \E c \in Callers : DownloadCopyFail(c)
       \/ \E c \in Callers : DownloadRename(c)
       \/ \E c \in Callers : AcquireRollback(c)
       \/ \E c \in Callers : Release(c)
       \/ cleanup
       \/ Tick
    /\ UNCHANGED <<mvars, fvars>>

\* the image cache under concurrent callers, the sweep and the clock
Spec == InitCache /\ [][NextCache]_vars

\* callers, Release calls and sweeps within one instant of the clock: whether a call
\* returns does not depend on the time that passes
NextAtOneInstant ==
    /\ \/ \E c \in Callers : AcquireInc(c)
       \/ \E c \in Callers : DoEnter(c)
       \/ \E c \in Callers : DownloadFetchFail(c)
       \/ \E c \in Callers : DownloadCreateTemp(c)
       \/ \E c \in Callers : DownloadCopyFail(c)
       \/ \E c \in Callers : DownloadRename(c)
       \/ \E c \in Callers : AcquireRollback(c)
       \/ \E c \in Callers : Release(c)
       \/ cleanup
    /\ UNCHANGED <<mvars, fvars>>

\* callers whose contexts may be cancelled, with a source that answers every request
\* in full
NextSourceUp ==
    /\ \/ \E c \in Callers : AcquireInc(c)
       \/ \E c \in Callers : DoEnter(c)
       \/ \E c \in Callers : DownloadCreateTemp(c)
       \/ \E c \in Callers : DownloadRename(c)
       \/ \E c \in Callers : Release(c)
       \/ \E c \in Callers : Cancel(c)
    /\ UNCHANGED <<mvars, fvars>>

SourceUpSpec == InitCache /\ [][NextSourceUp]_vars

\* callers, sweeps and Release calls that no Acquire call stands behind
NextWithStrayRelease ==
    \/ NextAtOneInstant
    \/ (\E k \in Keys : StrayRelease(k)) /\ UNCHANGED <<mvars, fvars>>

StrayReleaseSpec == InitCache /\ [][NextWithStrayRelease]_vars

\* the same, with every goroutine inside Acquire scheduled again and again; the fetch
\* and the copy end one way or the other because http.Client.Timeout bounds the whole
\* exchange, body included (images.go:35, 249-251)
FairSpec ==
    /\ InitCache /\ [][NextAtOneInstant]_vars
    /\ \A c \in Callers :
        /\ WF_vars(DoEnter(c) /\ UNCHANGED <<mvars, fvars>>)
        /\ WF_vars((DownloadFetchFail(c) \/ DownloadCreateTemp(c))
                      /\ UNCHANGED <<mvars, fvars>>)
        /\ WF_vars((DownloadCopyFail(c) \/ DownloadRename(c))
                      /\ UNCHANGED <<mvars, fvars>>)
        /\ WF_vars(AcquireRollback(c) /\ UNCHANGED <<mvars, fvars>>)

\* a caller is inside Acquire
InAcquire(c) == pc[c] \in {"do", "wait", "fetch", "copy", "rollback"}

\* C22: every Acquire call returns: a caller inside Acquire, whether it runs the
\* download itself or waits for the download of another caller, eventually holds the
\* path or is back with the error, whatever Release calls and sweeps come in between
AcquireReturns ==
    \A c \in Callers : InAcquire(c) ~> (pc[c] \in {"idle", "hold"})

\* a caller that waited for the download of another caller got its error and is back
AcquireReturnsWitness ==
    /\ op[1] = "rollback"
    /\ \E c \in Callers : pc[c] = "idle" /\ calls[op[2]] = 2 /\ fetches[op[2]] = 1
                            /\ acquired[op[2]] = 0

\* one goroutine that acquires and releases images, one call after the other, from a
\* source that answers every request in full; the sweep and the clock
NextSweeping ==
    /\ \/ \E c \in {1} : AcquireInc(c)
       \/ \E c \in Callers : DoEnter(c)
       \/ \E c \in Callers : DownloadCreateTemp(c)
       \/ \E c \in Callers : DownloadRename(c)
       \/ \E c \in Callers : AcquireRollback(c)
       \/ \E c \in Callers : Release(c)
       \/ cleanup
       \/ Tick
    /\ UNCHANGED <<mvars, fvars>>

\* the same with the sweep running again and again on its ticker (images.go:137-149)
\* and the clock moving on
SweepingSpec ==
    /\ InitCache
    /\ [][NextSweeping]_vars
    /\ WF_vars(cleanup /\ UNCHANGED <<mvars, fvars>>)
    /\ WF_vars(Tick /\ UNCHANGED <<mvars, fvars>>)

\* the model's clock reaches the time at which an idle time t has aged MaxAge
Expires(t) == t + MaxAge <= MaxTime

\* C38: an unreferenced cached file does not stay: one with no idle time recorded gets
\* one, and one with an idle time recorded is deleted, together with that record, once
\* MaxAge has passed, unless it is acquired again before
IdleFileIsEvicted ==
    \A k \in Keys :
        /\ (k \in files /\ ~InUse(k) /\ NoMetadata(k))
               ~> (k \notin files \/ InUse(k) \/ ~NoMetadata(k))
        /\ (k \in files /\ ~InUse(k) /\ ~NoMetadata(k) /\ Expires(lastUsed[k]))
               ~> ((k \notin files /\ NoMetadata(k)) \/ InUse(k))

\* a sweep has deleted a file that was released and then left alone, and its record
IdleFileIsEvictedWitness ==
    /\ op[1] = "cleanup" /\ op[2] /= {}
    /\ \E k \in Keys : /\ \E e \in op[2] : e[1] = k
                        /\ released[k] >= 1 /\ k \notin files /\ lastUsed[k] = NoTime

====
